---- MODULE Spec2Model ----
(***************************************************************************)
(* Model of scripts/wrappers/common/utils.py: the addon dispatcher xable   *)
(* and the readiness poller wait_for_ready / is_cluster_ready.             *)
(*                                                                         *)
(* Text is modelled as a sequence of atoms (a string is the concatenation  *)
(* of its atoms).  The separator ":" is an atom of its own, so that        *)
(* str.split(':') and the substring test `x in s` are computed on the      *)
(* text and not assumed.                                                   *)
(***************************************************************************)
EXTENDS Integers, Sequences, FiniteSets, TLC

VARIABLES
    \* ---- xable ----
    action,          \* parameter `action`
    addons,          \* parameter `addons`: the command-line tokens
    xabled_addons,   \* parameter `xabled_addons`
    actions_dir,     \* file names present in microk8s-resources/actions
    existing_addons, \* local of xable, line 154
    pc,              \* position of xable
    mode,            \* branch taken at line 158: "multi" or "single"
    idx,             \* multi-addon loop: index of the next token
    log,             \* what xable did so far: messages and script runs
    exit_status,     \* how xable ended
    \* ---- wait_for_ready ----
    timeout,         \* parameter `timeout`
    now,             \* the wall clock, time.time()
    start_time,      \* local of wait_for_ready, line 73
    isReady,         \* local of wait_for_ready, line 74
    wpc,             \* position of wait_for_ready / is_cluster_ready
    service_output,  \* local of is_cluster_ready, line 55
    samples,         \* the probe readings taken so far
    slept,           \* number of time.sleep(2) calls made
    ret              \* value returned by wait_for_ready

xvars == <<action, addons, xabled_addons, actions_dir, existing_addons, pc, mode, idx, log, exit_status>>
wvars == <<timeout, now, start_time, isReady, wpc, service_output, samples, slept, ret>>
vars == <<action, addons, xabled_addons, actions_dir, existing_addons, pc, mode, idx, log, exit_status,
          timeout, now, start_time, isReady, wpc, service_output, samples, slept, ret>>

----------------------------------------------------------------------------
(* Bounds and input sets *)

MaxTokens == 3

Actions == {"enable", "disable"}

AddonNames == {<<"dns">>, <<"kubeflow">>}

Tokens ==
    { <<"dns">>, <<"dns", ":", "val">>, <<"dns", ":">>, <<"dns", ":", "val", ":", "val2">>,
      <<"kubeflow">>, <<"kubeflow", ":", "val">>, <<"--flag">> }

RECURSIVE SeqsUpTo(_, _)
SeqsUpTo(S, n) ==
    IF n = 0 THEN {<<>>}
    ELSE LET shorter == SeqsUpTo(S, n - 1)
         IN  shorter \cup {Append(s, x) : s \in {t \in shorter : Len(t) = n - 1}, x \in S}

----------------------------------------------------------------------------
(* Text helpers *)

\* str.split(':')
RECURSIVE split(_)
split(s) ==
    IF \A i \in 1..Len(s) : s[i] # ":"
    THEN <<s>>
    ELSE LET i == CHOOSE j \in 1..Len(s) : s[j] = ":" /\ \A k \in 1..(j - 1) : s[k] # ":"
         IN  <<SubSeq(s, 1, i - 1)>> \o split(SubSeq(s, i + 1, Len(s)))

\* '%s.%s.sh' % (action, addon)
ScriptName(act, addon) == <<act, ".">> \o addon \o <<".sh">>

\* actions.glob('enable.*.sh') followed by sh.with_suffix('').name[7:]
ExistingAddons(dir) ==
    { SubSeq(f, 3, Len(f) - 1) :
        f \in {g \in dir : Len(g) >= 3 /\ g[1] = "enable" /\ g[2] = "." /\ g[Len(g)] = ".sh"} }

AllScripts == {ScriptName(a, n) : a \in Actions, n \in AddonNames}

----------------------------------------------------------------------------
(* xable: decisions *)

\* addon, *args = token.split(':')
AddonOf(token) == Head(split(token))
ArgsOf(token) == Tail(split(token))

\* variant of IsMultiAddon: any() in place of all()
IsMultiAddon_Any(tokens, existing) ==
    (\E i \in 1..Len(tokens) : AddonOf(tokens[i]) \in existing) /\ Len(tokens) > 1

\* line 158: all(a.split(':')[0] in existing_addons for a in addons) and len(addons) > 1
IsMultiAddon(tokens, existing) ==
    (\A i \in 1..Len(tokens) : AddonOf(tokens[i]) \in existing) /\ Len(tokens) > 1

\* line 160: addon in xabled_addons and addon != 'kubeflow', addon being the whole token
MultiAlreadyXabled(token, xabled) == token \in xabled /\ token # <<"kubeflow">>

\* variant of SingleAlreadyXabled: the kubeflow exemption left out
SingleAlreadyXabled_NoExempt(addon, xabled) == addon \in xabled

\* line 171: addon in xabled_addons and addon != 'kubeflow', addon being the split name
SingleAlreadyXabled(addon, xabled) == addon \in xabled /\ addon # <<"kubeflow">>

\* variant of IsAmbiguous: addons[2:] in place of addons[1:]
IsAmbiguous_SkipsOne(args, tokens) == args # <<>> /\ Len(tokens) > 2

\* line 180: args and addons[1:]
IsAmbiguous(args, tokens) == args # <<>> /\ Tail(tokens) # <<>>

\* variant of SingleArgs: addons in place of addons[1:]
SingleArgs_AllTokens(args, tokens) == IF args # <<>> THEN args ELSE tokens

\* lines 202-205: the arguments handed to the script in single-addon mode
SingleArgs(args, tokens) == IF args # <<>> THEN args ELSE Tail(tokens)

\* subprocess.run(argv) without check=True: the exit status of the script is
\* returned and ignored (0 or 1 here); a script file that does not exist makes
\* subprocess.run raise FileNotFoundError (status -1 here), which xable does
\* not catch.
RunOutcomes(dir, script) == IF script \in dir THEN {0, 1} ELSE {-1}

\* variant of JoinOrders: the last member is left out of the list
JoinOrders_DropLast(S) ==
    {SubSeq(s, 1, Len(s) - 1) :
        s \in {t \in SeqsUpTo(S, Cardinality(S)) : {t[i] : i \in 1..Len(t)} = S}}

\* '\n - '.join(existing_addons): the members of the set, in the set's iteration order
JoinOrders(S) == {s \in SeqsUpTo(S, Cardinality(S)) : {s[i] : i \in 1..Len(s)} = S}

Echo(token) == [kind |-> "echo_already", argv |-> <<token>>, status |-> 0]
Run(act, addon, args, st) == [kind |-> "run", argv |-> <<ScriptName(act, addon)>> \o args, status |-> st]
NotFound(addon) == [kind |-> "err_not_found", argv |-> <<addon>>, status |-> 0]
Available(listing) == [kind |-> "err_available", argv |-> listing, status |-> 0]
Ambiguous(act) == [kind |-> "err_ambiguous", argv |-> <<<<act>>>>, status |-> 0]

----------------------------------------------------------------------------
(* xable: steps *)

\* lines 153-158 and 168
XableEnter ==
    /\ pc = "start"
    /\ existing_addons' = ExistingAddons(actions_dir)
    /\ IF IsMultiAddon(addons, ExistingAddons(actions_dir))
       THEN pc' = "multi" /\ mode' = "multi" /\ idx' = 1
       ELSE pc' = "single" /\ mode' = "single" /\ idx' = idx
    /\ UNCHANGED <<action, addons, xabled_addons, actions_dir, log, exit_status>>
    /\ UNCHANGED wvars

\* lines 159-161
MultiEcho ==
    /\ pc = "multi"
    /\ idx <= Len(addons)
    /\ MultiAlreadyXabled(addons[idx], xabled_addons)
    /\ log' = Append(log, Echo(addons[idx]))
    /\ idx' = idx + 1
    /\ UNCHANGED <<mode, action, addons, xabled_addons, actions_dir, existing_addons, pc, exit_status>>
    /\ UNCHANGED wvars

\* lines 162-164
MultiRun ==
    /\ pc = "multi"
    /\ idx <= Len(addons)
    /\ ~MultiAlreadyXabled(addons[idx], xabled_addons)
    /\ \E st \in RunOutcomes(actions_dir, ScriptName(action, AddonOf(addons[idx]))) :
        /\ log' = Append(log, Run(action, AddonOf(addons[idx]), ArgsOf(addons[idx]), st))
        /\ IF st = -1
           THEN pc' = "done" /\ exit_status' = "FileNotFoundError" /\ idx' = idx
           ELSE pc' = pc /\ exit_status' = exit_status /\ idx' = idx + 1
    /\ UNCHANGED <<mode, action, addons, xabled_addons, actions_dir, existing_addons>>
    /\ UNCHANGED wvars

\* end of the for loop of line 159: xable returns
MultiReturn ==
    /\ pc = "multi"
    /\ idx > Len(addons)
    /\ pc' = "done"
    /\ exit_status' = "return"
    /\ UNCHANGED <<mode, action, addons, xabled_addons, actions_dir, existing_addons, idx, log>>
    /\ UNCHANGED wvars

\* line 169 with no token at all: addons[0] raises IndexError
SingleIndexError ==
    /\ pc = "single"
    /\ addons = <<>>
    /\ pc' = "done"
    /\ exit_status' = "IndexError"
    /\ UNCHANGED <<mode, action, addons, xabled_addons, actions_dir, existing_addons, idx, log>>
    /\ UNCHANGED wvars

\* variant of SingleAlready: sys.exit(1) in place of sys.exit(0)
SingleAlready_Exit1 ==
    /\ pc = "single"
    /\ addons # <<>>
    /\ SingleAlreadyXabled(AddonOf(addons[1]), xabled_addons)
    /\ log' = Append(log, Echo(AddonOf(addons[1])))
    /\ pc' = "done"
    /\ exit_status' = "exit1"
    /\ UNCHANGED <<mode, action, addons, xabled_addons, actions_dir, existing_addons, idx>>
    /\ UNCHANGED wvars

\* lines 169-173
SingleAlready ==
    /\ pc = "single"
    /\ addons # <<>>
    /\ SingleAlreadyXabled(AddonOf(addons[1]), xabled_addons)
    /\ log' = Append(log, Echo(AddonOf(addons[1])))
    /\ pc' = "done"
    /\ exit_status' = "exit0"
    /\ UNCHANGED <<mode, action, addons, xabled_addons, actions_dir, existing_addons, idx>>
    /\ UNCHANGED wvars

\* variant of SingleNotFound: the not-found test made before the already-xabled test
SingleNotFound_First ==
    /\ pc = "single"
    /\ addons # <<>>
    /\ AddonOf(addons[1]) \notin existing_addons
    /\ \E listing \in JoinOrders(existing_addons) :
        log' = log \o <<NotFound(AddonOf(addons[1])), Available(listing)>>
    /\ pc' = "done"
    /\ exit_status' = "exit1"
    /\ UNCHANGED <<mode, action, addons, xabled_addons, actions_dir, existing_addons, idx>>
    /\ UNCHANGED wvars

\* lines 175-178
SingleNotFound ==
    /\ pc = "single"
    /\ addons # <<>>
    /\ ~SingleAlreadyXabled(AddonOf(addons[1]), xabled_addons)
    /\ AddonOf(addons[1]) \notin existing_addons
    /\ \E listing \in JoinOrders(existing_addons) :
        log' = log \o <<NotFound(AddonOf(addons[1])), Available(listing)>>
    /\ pc' = "done"
    /\ exit_status' = "exit1"
    /\ UNCHANGED <<mode, action, addons, xabled_addons, actions_dir, existing_addons, idx>>
    /\ UNCHANGED wvars

\* variant of SingleAmbiguous: the test made after the script was run
SingleAmbiguous_AfterRun ==
    /\ pc = "single"
    /\ addons # <<>>
    /\ ~SingleAlreadyXabled(AddonOf(addons[1]), xabled_addons)
    /\ AddonOf(addons[1]) \in existing_addons
    /\ IsAmbiguous(ArgsOf(addons[1]), addons)
    /\ log' = log \o <<Run(action, AddonOf(addons[1]), ArgsOf(addons[1]), 0), Ambiguous(action)>>
    /\ pc' = "done"
    /\ exit_status' = "exit1"
    /\ UNCHANGED <<mode, action, addons, xabled_addons, actions_dir, existing_addons, idx>>
    /\ UNCHANGED wvars

\* lines 180-199
SingleAmbiguous ==
    /\ pc = "single"
    /\ addons # <<>>
    /\ ~SingleAlreadyXabled(AddonOf(addons[1]), xabled_addons)
    /\ AddonOf(addons[1]) \in existing_addons
    /\ IsAmbiguous(ArgsOf(addons[1]), addons)
    /\ log' = Append(log, Ambiguous(action))
    /\ pc' = "done"
    /\ exit_status' = "exit1"
    /\ UNCHANGED <<mode, action, addons, xabled_addons, actions_dir, existing_addons, idx>>
    /\ UNCHANGED wvars

\* lines 201-205
SingleRun ==
    /\ pc = "single"
    /\ addons # <<>>
    /\ ~SingleAlreadyXabled(AddonOf(addons[1]), xabled_addons)
    /\ AddonOf(addons[1]) \in existing_addons
    /\ ~IsAmbiguous(ArgsOf(addons[1]), addons)
    /\ \E st \in RunOutcomes(actions_dir, ScriptName(action, AddonOf(addons[1]))) :
        /\ log' = Append(log, Run(action, AddonOf(addons[1]),
                                  SingleArgs(ArgsOf(addons[1]), addons), st))
        /\ exit_status' = IF st = -1 THEN "FileNotFoundError" ELSE "return"
    /\ pc' = "done"
    /\ UNCHANGED <<mode, action, addons, xabled_addons, actions_dir, existing_addons, idx>>
    /\ UNCHANGED wvars

WaitIdle ==
    /\ timeout = 0 /\ now = 0 /\ start_time = 0 /\ isReady = FALSE /\ wpc = "idle"
    /\ service_output = <<>> /\ samples = <<>> /\ slept = 0 /\ ret = FALSE

Init ==
    /\ action \in Actions
    /\ addons \in SeqsUpTo(Tokens, MaxTokens)
    /\ xabled_addons \in SUBSET AddonNames
    /\ actions_dir \in SUBSET AllScripts
    /\ existing_addons = {}
    /\ pc = "start"
    /\ mode = "none"
    /\ idx = 0
    /\ log = <<>>
    /\ exit_status = "none"
    /\ WaitIdle

Next ==
    \/ XableEnter
    \/ MultiEcho
    \/ MultiRun
    \/ MultiReturn
    \/ SingleIndexError
    \/ SingleAlready
    \/ SingleNotFound
    \/ SingleAmbiguous
    \/ SingleRun

Spec == Init /\ [][Next]_vars

----------------------------------------------------------------------------
(* wait_for_ready and is_cluster_ready *)

MaxTime == 4
MaxSamples == 3
SleepDelay == 2

Timeouts == {-1, 0, 1, 2}

\* what time.time() can give when wait_for_ready is entered
StartTimes == {0, 1}

\* what `kubectl get all --all-namespaces` can print
ServiceListings ==
    { <<"default", " ", "pod/coredns">>, <<"default", " ", "service/kubernetes", " ", "ClusterIP">> }

\* what `kubectl get nodes --all-namespaces` can print: "NotReady" is the
\* text "Not" followed by the text "Ready"
NodeListings ==
    { <<"node1", " ", "Ready">>, <<"node1", " ", "Not", "Ready">>,
      <<"node1", " ", "Not", "Ready", "\n", "node2", " ", "Ready">> }

\* kubectl_get raised (run(..., die=False) re-raises CalledProcessError)
ProbeError == <<"!CalledProcessError">>
NotQueried == <<"!not-queried">>

\* `sub in s`
Contains(s, sub) ==
    \E i \in 1..(Len(s) - Len(sub) + 1) : SubSeq(s, i, i + Len(sub) - 1) = sub

\* lines 53-62: the outcome of one call of is_cluster_ready, given what the two
\* kubectl_get calls gave; every exception is caught at line 61
is_cluster_ready(service_out, node_out) ==
    IF service_out = ProbeError \/ node_out = ProbeError
    THEN [raised |-> FALSE, value |-> FALSE]
    ELSE [raised |-> FALSE,
          value |-> Contains(node_out, <<"Ready">>) /\ Contains(service_out, <<"service/kubernetes">>)]

\* lines 73-74
WaitEnter ==
    /\ wpc = "start"
    /\ start_time' = now
    /\ isReady' = FALSE
    /\ wpc' = "loop"
    /\ UNCHANGED <<timeout, now, service_output, samples, slept, ret>>
    /\ UNCHANGED xvars

\* the wall clock advances while wait_for_ready runs; MaxTime caps the time
\* elapsed since start_time, and exceeds every timeout of Timeouts
Tick ==
    /\ wpc \in {"loop", "get_all", "get_nodes"}
    /\ now < start_time + MaxTime
    /\ now' = now + 1
    /\ UNCHANGED <<timeout, start_time, isReady, wpc, service_output, samples, slept, ret>>
    /\ UNCHANGED xvars

\* variant of LoopCheck: a passed deadline makes the result false
LoopCheck_DeadlineWins ==
    /\ wpc = "loop"
    /\ IF timeout > 0 /\ now > start_time + timeout
       THEN wpc' = "done" /\ ret' = FALSE
       ELSE IF isReady
            THEN wpc' = "done" /\ ret' = isReady
            ELSE Len(samples) < MaxSamples /\ wpc' = "get_all" /\ ret' = ret
    /\ UNCHANGED <<timeout, now, start_time, isReady, service_output, samples, slept>>
    /\ UNCHANGED xvars

\* variant of LoopCheck: the deadline is start_time - timeout
LoopCheck_EarlyDeadline ==
    /\ wpc = "loop"
    /\ IF (timeout > 0 /\ now > start_time - timeout) \/ isReady
       THEN wpc' = "done" /\ ret' = isReady
       ELSE Len(samples) < MaxSamples /\ wpc' = "get_all" /\ ret' = ret
    /\ UNCHANGED <<timeout, now, start_time, isReady, service_output, samples, slept>>
    /\ UNCHANGED xvars

\* variant of LoopCheck: timeout >= 0 in place of timeout > 0
LoopCheck_ZeroDeadline ==
    /\ wpc = "loop"
    /\ IF (timeout >= 0 /\ now > start_time + timeout) \/ isReady
       THEN wpc' = "done" /\ ret' = isReady
       ELSE Len(samples) < MaxSamples /\ wpc' = "get_all" /\ ret' = ret
    /\ UNCHANGED <<timeout, now, start_time, isReady, service_output, samples, slept>>
    /\ UNCHANGED xvars

\* variant of LoopCheck: the deadline test left out
LoopCheck_NoDeadline ==
    /\ wpc = "loop"
    /\ IF isReady
       THEN wpc' = "done" /\ ret' = isReady
       ELSE Len(samples) < MaxSamples /\ wpc' = "get_all" /\ ret' = ret
    /\ UNCHANGED <<timeout, now, start_time, isReady, service_output, samples, slept>>
    /\ UNCHANGED xvars

\* lines 77-78 and 84: the loop condition, and the return
LoopCheck ==
    /\ wpc = "loop"
    /\ IF (timeout > 0 /\ now > start_time + timeout) \/ isReady
       THEN wpc' = "done" /\ ret' = isReady
       ELSE Len(samples) < MaxSamples /\ wpc' = "get_all" /\ ret' = ret
    /\ UNCHANGED <<timeout, now, start_time, isReady, service_output, samples, slept>>
    /\ UNCHANGED xvars

\* lines 79-82 around the value or exception that is_cluster_ready gives
AssignReady(service_out, node_out) ==
    LET r == is_cluster_ready(service_out, node_out)
    IN  /\ samples' = Append(samples, [service |-> service_out, nodes |-> node_out])
        /\ IF r.raised
           THEN isReady' = isReady /\ slept' = slept + 1 /\ now' = now + SleepDelay
           ELSE isReady' = r.value /\ slept' = slept /\ now' = now
        /\ wpc' = "loop"

\* line 55, kubectl_get("all") returns
GetAll ==
    /\ wpc = "get_all"
    /\ \E out \in ServiceListings : service_output' = out
    /\ wpc' = "get_nodes"
    /\ UNCHANGED <<timeout, now, start_time, isReady, samples, slept, ret>>
    /\ UNCHANGED xvars

\* variant of GetAllFails: the exception is caught by neither handler
GetAllFails_Propagates ==
    /\ wpc = "get_all"
    /\ service_output' = ProbeError
    /\ samples' = Append(samples, [service |-> ProbeError, nodes |-> NotQueried])
    /\ wpc' = "raised"
    /\ UNCHANGED <<timeout, now, start_time, isReady, slept, ret>>
    /\ UNCHANGED xvars

\* line 55, kubectl_get("all") raises: line 56 is not reached
GetAllFails ==
    /\ wpc = "get_all"
    /\ service_output' = ProbeError
    /\ AssignReady(ProbeError, NotQueried)
    /\ UNCHANGED <<timeout, start_time, ret>>
    /\ UNCHANGED xvars

\* lines 56-60, kubectl_get("nodes") returns
GetNodes ==
    /\ wpc = "get_nodes"
    /\ \E out \in NodeListings : AssignReady(service_output, out)
    /\ UNCHANGED <<timeout, start_time, service_output, ret>>
    /\ UNCHANGED xvars

\* line 56, kubectl_get("nodes") raises
GetNodesFails ==
    /\ wpc = "get_nodes"
    /\ AssignReady(service_output, ProbeError)
    /\ UNCHANGED <<timeout, start_time, service_output, ret>>
    /\ UNCHANGED xvars

XableIdle ==
    /\ action = "enable" /\ addons = <<>> /\ xabled_addons = {} /\ actions_dir = {}
    /\ existing_addons = {} /\ pc = "idle" /\ mode = "none" /\ idx = 0 /\ log = <<>>
    /\ exit_status = "none"

InitW ==
    /\ timeout \in Timeouts
    /\ now \in StartTimes
    /\ start_time = 0
    /\ isReady = FALSE
    /\ wpc = "start"
    /\ service_output = <<>>
    /\ samples = <<>>
    /\ slept = 0
    /\ ret = FALSE
    /\ XableIdle

NextW ==
    \/ WaitEnter
    \/ Tick
    \/ LoopCheck
    \/ GetAll
    \/ GetAllFails
    \/ GetNodes
    \/ GetNodesFails

SpecW == InitW /\ [][NextW]_vars

\* wait_for_ready keeps running, every kubectl_get call comes back (with
\* output or with an error), and the wall clock advances
SpecWFair ==
    /\ InitW
    /\ [][NextW]_vars
    /\ WF_vars(WaitEnter)
    /\ WF_vars(LoopCheck)
    /\ WF_vars(GetAll \/ GetAllFails)
    /\ WF_vars(GetNodes \/ GetNodesFails)
    /\ WF_vars(Tick)

----------------------------------------------------------------------------
(* Vocabulary of the properties, stated on the text of the tokens *)

HasColon(t) == \E i \in 1..Len(t) : t[i] = ":"

FirstColon(t) == CHOOSE i \in 1..(Len(t) + 1) :
    /\ \A k \in 1..(i - 1) : t[k] # ":"
    /\ i <= Len(t) => t[i] = ":"

\* the part of a token before its first colon
NamePart(t) == SubSeq(t, 1, FirstColon(t) - 1)

\* name:v1:v2 rebuilt from <<name, v1, v2>>
RECURSIVE JoinColon(_)
JoinColon(parts) ==
    IF Len(parts) = 1 THEN parts[1] ELSE parts[1] \o <<":">> \o JoinColon(Tail(parts))

\* ev is a launch of <act>.<name of t>.sh with exactly the colon-values of t
IsDispatchOf(ev, act, t) ==
    /\ ev.kind = "run"
    /\ ev.argv[1] = <<act, ".">> \o NamePart(t) \o <<".sh">>
    /\ \A k \in 2..Len(ev.argv) : ~HasColon(ev.argv[k])
    /\ JoinColon(<<NamePart(t)>> \o Tail(ev.argv)) = t

\* names with an enable script / with a script of the given action
EnableNames == {n \in AddonNames : (<<"enable", ".">> \o n \o <<".sh">>) \in actions_dir}
NamesWithScript(act) == {n \in AddonNames : (<<act, ".">> \o n \o <<".sh">>) \in actions_dir}

Kubeflow == <<"kubeflow">>

ShouldSkip(name) == name \in xabled_addons /\ name # Kubeflow

Launches == SelectSeq(log, LAMBDA ev : ev.kind = "run")

----------------------------------------------------------------------------
(* Properties *)

\* C1: when xable has ended in multi-addon mode, every token has been handled
\* in token order, either by its skip message or by one launch of
\* <action>.<name>.sh with that token's colon-values, so the launches are the
\* tokens without the skipped ones, in token order.
C1_DispatchOrderComplete ==
    (mode = "multi" /\ pc = "done") =>
        /\ Len(log) = Len(addons)
        /\ \A k \in 1..Len(log) :
            \/ log[k] = [kind |-> "echo_already", argv |-> <<addons[k]>>, status |-> 0]
            \/ IsDispatchOf(log[k], action, addons[k])

\* C2: in multi-addon mode a handled token got the skip message instead of a
\* launch exactly when its name part is in alreadyXabled and is not kubeflow.
C2_SkipIffNameXabled ==
    mode = "multi" =>
        \A k \in 1..Len(log) :
            (log[k].kind = "echo_already") <=> ShouldSkip(NamePart(addons[k]))

\* C3: every launch targets <action>.<name>.sh for a name that has a script of
\* that same action in the actions directory.
C3_LaunchTargetsExistingScript ==
    \A k \in 1..Len(log) :
        log[k].kind = "run" =>
            \E n \in NamesWithScript(action) : log[k].argv[1] = <<action, ".">> \o n \o <<".sh">>

\* C4 as stated: a single-addon request whose first token has a colon-value
\* and which has trailing tokens always ends with the ambiguous-arguments
\* error and exit status 1.
C4_AmbiguousAlways ==
    (mode = "single" /\ pc = "done" /\ Len(addons) > 1 /\ HasColon(addons[1])) =>
        /\ exit_status = "exit1"
        /\ log = <<[kind |-> "err_ambiguous", argv |-> <<<<action>>>>, status |-> 0]>>

\* C4 amended: the same request ends with the ambiguous-arguments error and
\* exit status 1, and launches nothing, provided the first token's name has an
\* enable script and is not skipped as already xabled.
C4_AmbiguousWhenResolved ==
    (/\ mode = "single" /\ pc = "done" /\ Len(addons) > 1 /\ HasColon(addons[1])
     /\ NamePart(addons[1]) \in EnableNames
     /\ ~ShouldSkip(NamePart(addons[1]))) =>
        /\ exit_status = "exit1"
        /\ log = <<[kind |-> "err_ambiguous", argv |-> <<<<action>>>>, status |-> 0]>>

C4_Witness ==
    /\ pc = "done" /\ mode = "single"
    /\ addons = <<<<"dns", ":", "val">>, <<"--flag">>>>
    /\ xabled_addons = {Kubeflow}
    /\ exit_status = "exit1"
    /\ log[1].kind = "err_ambiguous"

\* C5 as stated: a single-token request for a name without an enable script
\* always ends with the not-found error, the full list and exit status 1.
C5_NotFoundAlways ==
    (pc = "done" /\ Len(addons) = 1 /\ NamePart(addons[1]) \notin EnableNames) =>
        /\ exit_status = "exit1"
        /\ Len(log) = 2
        /\ log[1] = [kind |-> "err_not_found", argv |-> <<NamePart(addons[1])>>, status |-> 0]
        /\ log[2].kind = "err_available"
        /\ \A n \in EnableNames : \E i \in 1..Len(log[2].argv) : log[2].argv[i] = n

\* C5 amended: the same holds provided the name is not skipped as already
\* xabled (not in alreadyXabled, or kubeflow).
C5_NotFoundUnlessSkipped ==
    (/\ pc = "done" /\ Len(addons) = 1 /\ NamePart(addons[1]) \notin EnableNames
     /\ ~ShouldSkip(NamePart(addons[1]))) =>
        /\ exit_status = "exit1"
        /\ Len(log) = 2
        /\ log[1] = [kind |-> "err_not_found", argv |-> <<NamePart(addons[1])>>, status |-> 0]
        /\ log[2].kind = "err_available"
        /\ \A n \in EnableNames : \E i \in 1..Len(log[2].argv) : log[2].argv[i] = n

C5_Witness ==
    /\ pc = "done"
    /\ addons = <<<<"--flag">>>>
    /\ Cardinality(EnableNames) = 2
    /\ xabled_addons = AddonNames
    /\ exit_status = "exit1"
    /\ Len(log) = 2 /\ Len(log[2].argv) = 2

\* C6: the multi-addon branch is taken exactly for sequences of more than one
\* token whose names all have an enable script, and that branch never reports
\* not-found nor exits with status 1; every other non-empty sequence takes the
\* single-addon branch, where only the first token's name is ever addressed.
C6_ModeSelection ==
    mode # "none" =>
        /\ (mode = "multi") <=>
              (Len(addons) > 1 /\ \A i \in 1..Len(addons) : NamePart(addons[i]) \in EnableNames)
        /\ mode = "multi" =>
              /\ exit_status \notin {"exit0", "exit1"}
              /\ \A k \in 1..Len(log) : log[k].kind \in {"echo_already", "run"}
        /\ (mode = "single" /\ addons # <<>>) =>
              \A k \in 1..Len(log) :
                  /\ log[k].kind = "run" =>
                        log[k].argv[1] = <<action, ".">> \o NamePart(addons[1]) \o <<".sh">>
                  /\ log[k].kind \in {"echo_already", "err_not_found"} =>
                        log[k].argv = <<NamePart(addons[1])>>

C6_Witness ==
    /\ mode = "multi" /\ pc = "done" /\ exit_status = "return"
    /\ Len(addons) = 3
    /\ \E i \in 1..3 : HasColon(addons[i])
    /\ Len(Launches) = 3

\* C7: kubeflow never gets the skip message; in multi-addon mode a handled
\* kubeflow token is launched, and in single-addon mode a kubeflow request
\* with an enable script and unmixed arguments ends with its launch, whether
\* or not kubeflow is in alreadyXabled.
C7_KubeflowNeverSkipped ==
    /\ \A k \in 1..Len(log) :
          log[k].kind = "echo_already" => NamePart(log[k].argv[1]) # Kubeflow
    /\ mode = "multi" =>
          \A k \in 1..Len(log) :
              NamePart(addons[k]) = Kubeflow => IsDispatchOf(log[k], action, addons[k])
    /\ (/\ mode = "single" /\ pc = "done" /\ addons # <<>>
        /\ NamePart(addons[1]) = Kubeflow
        /\ Kubeflow \in EnableNames
        /\ ~(HasColon(addons[1]) /\ Len(addons) > 1)) =>
          /\ Len(log) = 1
          /\ log[1].kind = "run"
          /\ log[1].argv[1] = <<action, ".", "kubeflow", ".sh">>

C7_Witness ==
    /\ Kubeflow \in xabled_addons
    /\ mode = "single" /\ pc = "done"
    /\ addons = <<Kubeflow, <<"--flag">>>>
    /\ log = <<[kind |-> "run", argv |-> <<<<action, ".", "kubeflow", ".sh">>, <<"--flag">>>>,
                status |-> 0]>>

\* C8: in single-addon mode a name in alreadyXabled other than kubeflow ends
\* xable with the skip message, exit status 0 and no launch.
C8_SingleSkipExitsZero ==
    (/\ mode = "single" /\ pc = "done" /\ addons # <<>>
     /\ ShouldSkip(NamePart(addons[1]))) =>
        /\ exit_status = "exit0"
        /\ log = <<[kind |-> "echo_already", argv |-> <<NamePart(addons[1])>>, status |-> 0]>>

C8_Witness ==
    /\ mode = "single" /\ pc = "done"
    /\ addons = <<<<"dns">>>>
    /\ <<"dns">> \in xabled_addons
    /\ <<"dns">> \in EnableNames
    /\ exit_status = "exit0"
    /\ Launches = <<>>

\* C9: in single-addon mode a request that is neither skipped nor rejected
\* ends with exactly one launch, of <action>.<name>.sh for the first token's
\* name, with the first token's colon-values when it has any and otherwise
\* with the remaining tokens, verbatim and in order.
C9_SingleDispatch ==
    (/\ mode = "single" /\ pc = "done" /\ addons # <<>>
     /\ ~ShouldSkip(NamePart(addons[1]))
     /\ NamePart(addons[1]) \in EnableNames
     /\ ~(HasColon(addons[1]) /\ Len(addons) > 1)) =>
        /\ Len(log) = 1
        /\ log[1].kind = "run"
        /\ log[1].argv[1] = <<action, ".">> \o NamePart(addons[1]) \o <<".sh">>
        /\ HasColon(addons[1]) => IsDispatchOf(log[1], action, addons[1])
        /\ ~HasColon(addons[1]) => Tail(log[1].argv) = Tail(addons)

C9_Witness ==
    /\ mode = "single" /\ pc = "done"
    /\ addons = <<<<"dns">>, <<"--flag">>, <<"kubeflow">>>>
    /\ Len(log) = 1
    /\ log[1].argv = <<<<"enable", ".", "dns", ".sh">>, <<"--flag">>, <<"kubeflow">>>>
    /\ exit_status = "return"

\* a reading with both signals: "Ready" in the nodes listing and
\* "service/kubernetes" in the services listing
BothSignals(sample) ==
    /\ \E i \in 1..Len(sample.nodes) : sample.nodes[i] = "Ready"
    /\ \E i \in 1..Len(sample.service) : sample.service[i] = "service/kubernetes"

\* C10: only the last reading taken can have both signals (no reading is taken
\* after one), and once the last reading has both signals wait_for_ready is at
\* its loop condition about to stop, or has returned, and then it returned true.
C10_ReadyStopsSampling ==
    /\ \A k \in 1..(Len(samples) - 1) : ~BothSignals(samples[k])
    /\ (samples # <<>> /\ BothSignals(samples[Len(samples)])) =>
          /\ wpc \in {"loop", "done"}
          /\ isReady
          /\ wpc = "done" => ret = TRUE

C10_Witness ==
    /\ wpc = "done" /\ ret = TRUE
    /\ Len(samples) = 2
    /\ ~BothSignals(samples[1]) /\ BothSignals(samples[2])
    /\ timeout > 0 /\ now > start_time + timeout

\* C11: with timeout > 0, wait_for_ready eventually has observed a ready
\* reading or has returned false, and whenever it has returned false at least
\* timeout seconds have passed since start_time.
C11_TimeoutReturnsFalse ==
    /\ [](timeout > 0 => <>(isReady \/ (wpc = "done" /\ ret = FALSE)))
    /\ []((timeout > 0 /\ wpc = "done" /\ ret = FALSE) => now - start_time >= timeout)

C11_Witness ==
    /\ timeout = 2 /\ wpc = "done" /\ ret = FALSE
    /\ Len(samples) >= 2
    /\ \A k \in 1..Len(samples) : ~BothSignals(samples[k])
    /\ now - start_time > timeout

LastReadingReady == samples # <<>> /\ BothSignals(samples[Len(samples)])

\* C12: with timeout <= 0 wait_for_ready never returns false: when it has
\* returned, it returned true and the last reading it took had both signals,
\* so without such a reading it does not return.
C12_NoDeadlineReturnsOnlyTrue ==
    (timeout <= 0 /\ wpc = "done") => (ret = TRUE /\ LastReadingReady)

C12_Witness ==
    /\ timeout = 0 /\ wpc = "done" /\ ret = TRUE
    /\ Len(samples) >= 2
    /\ ~BothSignals(samples[1])
    /\ now - start_time >= 2

\* C13 as stated: every evaluation of the loop condition with timeout > 0 and
\* more than timeout seconds elapsed ends wait_for_ready with result false.
C13_PassedDeadlineGivesFalse ==
    [][(wpc = "loop" /\ timeout > 0 /\ now > start_time + timeout /\ wpc' # wpc)
          => (wpc' = "done" /\ ret' = FALSE)]_vars

\* C13 amended: such an evaluation ends wait_for_ready without another
\* reading, with result true when the last reading taken had both signals and
\* with result false otherwise.
C13_PassedDeadlineGivesLastReading ==
    [][(wpc = "loop" /\ timeout > 0 /\ now > start_time + timeout /\ wpc' # wpc)
          => (wpc' = "done" /\ samples' = samples /\ ret' = LastReadingReady)]_vars

C13_Witness ==
    /\ wpc = "done" /\ timeout = 1 /\ now > start_time + timeout
    /\ Len(samples) = 1
    /\ BothSignals(samples[1])
    /\ ret = TRUE

\* a reading during which one of the two kubectl queries failed
ProbeFailed(sample) ==
    sample.service = <<"!CalledProcessError">> \/ sample.nodes = <<"!CalledProcessError">>

\* C14: a step that completes a reading with a failed query also lets at least
\* the fixed delay of 2 seconds pass, so the next reading starts after it.
C14_ProbeErrorPauses ==
    [][(samples' # samples /\ ProbeFailed(samples'[Len(samples')]))
          => (now' >= now + 2 /\ slept' = slept + 1)]_vars

\* C15: a step that completes a reading with a failed query leaves
\* wait_for_ready in its loop with a not-ready reading and nothing returned,
\* and wait_for_ready is always either running or has returned a boolean.
C15_ProbeErrorNotSurfaced ==
    /\ [][(samples' # samples /\ ProbeFailed(samples'[Len(samples')]))
            => (wpc' = "loop" /\ isReady' = FALSE /\ ret' = ret)]_vars
    /\ [](wpc \in {"start", "loop", "get_all", "get_nodes", "done"})
    /\ [](wpc = "done" => ret \in BOOLEAN)

C15_Witness ==
    /\ wpc = "done" /\ ret = TRUE
    /\ Len(samples) = 3
    /\ samples[1].service = <<"!CalledProcessError">>
    /\ samples[2].nodes = <<"!CalledProcessError">>
    /\ BothSignals(samples[3])

\* the nodes listing has a status that is the token Ready (not NotReady)
HasReadyStatus(nodes) ==
    \E i \in 1..Len(nodes) : nodes[i] = "Ready" /\ (i = 1 \/ nodes[i - 1] # "Not")

\* C16: the reading just taken is ready exactly when some node has the status
\* Ready and the services listing has service/kubernetes; a listing whose
\* nodes are all NotReady gives a not-ready reading.
C16_ReadyIffStatusToken ==
    (wpc = "loop" /\ samples # <<>>) =>
        (isReady <=>
            /\ HasReadyStatus(samples[Len(samples)].nodes)
            /\ \E i \in 1..Len(samples[Len(samples)].service) :
                  samples[Len(samples)].service[i] = "service/kubernetes")

SkipMessages == SelectSeq(log, LAMBDA ev : ev.kind = "echo_already")

\* C17: when xable has ended in multi-addon mode, it has made one launch for
\* each token that was not skipped, whatever the launches gave, and it has
\* returned normally; in single-addon mode a call that launched a script has
\* launched once and returned normally.
C17_LaunchFailuresDoNotAbort ==
    /\ (mode = "multi" /\ pc = "done") =>
          /\ Len(Launches) = Len(addons) - Len(SkipMessages)
          /\ exit_status = "return"
    /\ (mode = "single" /\ pc = "done" /\ Launches # <<>>) =>
          /\ Len(Launches) = 1
          /\ exit_status = "return"

\* C18: when xable has ended the process (exit status 0 or 1) it has launched
\* nothing, and a single-addon call never makes more than one launch.
C18_NoLaunchBeforeExit ==
    /\ exit_status \in {"exit0", "exit1"} => Launches = <<>>
    /\ mode = "single" => Len(Launches) <= 1

C18_Witness ==
    /\ pc = "done" /\ mode = "single" /\ exit_status = "exit1"
    /\ addons = <<<<"kubeflow", ":", "val">>, <<"--flag">>, <<"dns">>>>
    /\ Kubeflow \in EnableNames
    /\ log # <<>> /\ log[Len(log)].kind = "err_ambiguous"
    /\ Launches = <<>>

MixedStyles == HasColon(addons[1]) /\ Len(addons) > 1

\* C19: in single-addon mode a name that is skipped as already xabled ends
\* with exit status 0 even when it has no enable script or the arguments mix
\* both styles, and a name that is not skipped and has no enable script ends
\* with the not-found error even when the arguments mix both styles.
C19_SingleCheckOrder ==
    (mode = "single" /\ pc = "done" /\ addons # <<>>) =>
        /\ (ShouldSkip(NamePart(addons[1])) /\ (NamePart(addons[1]) \notin EnableNames \/ MixedStyles)) =>
              (exit_status = "exit0" /\ Len(log) = 1 /\ log[1].kind = "echo_already")
        /\ (~ShouldSkip(NamePart(addons[1])) /\ NamePart(addons[1]) \notin EnableNames /\ MixedStyles) =>
              (exit_status = "exit1" /\ Len(log) = 2 /\ log[1].kind = "err_not_found")

C19_Witness ==
    /\ mode = "single" /\ pc = "done"
    /\ addons = <<<<"dns", ":", "val">>, <<"--flag">>>>
    /\ <<"dns">> \in xabled_addons
    /\ <<"dns">> \notin EnableNames
    /\ exit_status = "exit0"

====
